---------------------------- MODULE Spec2Model ----------------------------
(***************************************************************************)
(* Hexagonal-grid coordinate algebra of bevy_ecs_tilemap:                  *)
(*   src/helpers/hex_grid/axial.rs   AxialPos, its arithmetic, the four    *)
(*                                   offset conversions, world mapping     *)
(*   src/helpers/hex_grid/offset.rs  RowOddPos, RowEvenPos, ColOddPos,     *)
(*                                   ColEvenPos                            *)
(* Every function of the program is pure; each is an operator here, and    *)
(* each specification draws the inputs in Init and applies the functions   *)
(* in its actions.                                                         *)
(***************************************************************************)
EXTENDS Integers, Sequences, FiniteSets

VARIABLES
    overflow_checks,  \* build profile: TRUE = arithmetic overflow panics, FALSE = it wraps
    a, b, c,          \* the positions a call is made on
    k,                \* the i32 scalar of Mul
    grid_size,        \* TilemapGridSize {x, y}
    map_size,         \* TilemapSize {x, y}
    pc,               \* the caller's position
    res               \* the values returned so far

vars == <<overflow_checks, a, b, c, k, grid_size, map_size, pc, res>>

(***************************************************************************)
(* Bounds of the model.                                                    *)
(***************************************************************************)
MaxCoord == 3      \* small coordinates are -MaxCoord .. MaxCoord
MaxSteps == 2      \* conversions chained by one caller
MaxScalar == 2     \* small operands of the arithmetic are -MaxScalar .. MaxScalar
MaxDist == 2       \* small coordinates of the distance calls are -MaxDist .. MaxDist
MaxMap == 3        \* map widths and heights are 0 .. MaxMap
MaxCell == 3       \* small cells of the world mapping are -MaxCell .. MaxCell
MaxGrid == 3       \* grid lengths are n and 1/n for n in 1 .. MaxGrid

(***************************************************************************)
(* i32: `pub q: i32, pub r: i32`.  An arithmetic overflow panics in a      *)
(* build with overflow checks and wraps modulo 2^32 in one without.        *)
(***************************************************************************)
MaxI32 == 2147483647
MinI32 == -MaxI32 - 1

AddOverflows(x, y) ==
    \/ y > 0 /\ x > MaxI32 - y
    \/ y < 0 /\ x < MinI32 - y

\* x + y modulo 2^32, as a two's-complement i32
WrappingAdd(x, y) ==
    IF y > 0 /\ x > MaxI32 - y THEN (x - MaxI32 - 1) + (y - MaxI32 - 1)
    ELSE IF y < 0 /\ x < MinI32 - y THEN (x + MaxI32 + 1) + (y + MaxI32 + 1)
    ELSE x + y

SubOverflows(x, y) ==
    \/ y < 0 /\ x > MaxI32 + y
    \/ y > 0 /\ x < MinI32 + y

\* x - y modulo 2^32
WrappingSub(x, y) ==
    IF y < 0 /\ x > MaxI32 + y THEN (x - MaxI32 - 1) - (y + MaxI32 + 1)
    ELSE IF y > 0 /\ x < MinI32 + y THEN (x + MaxI32 + 1) - (y - MaxI32 - 1)
    ELSE x - y

\* Rust's `x / 2` on i32: the quotient truncated toward zero
DivBy2(x) == IF x >= 0 THEN x \div 2 ELSE (x + 1) \div 2

\* |x| for x > MinI32
Abs(x) == IF x < 0 THEN -x ELSE x

\* whether the product x * y lies outside i32
MulOverflows(x, y) ==
    IF x = 0 \/ y = 0 \/ x = 1 \/ y = 1 THEN FALSE
    ELSE IF x = MinI32 \/ y = MinI32 THEN TRUE
    ELSE IF (x < 0) = (y < 0)
         THEN Abs(x) > MaxI32 \div Abs(y)
         ELSE /\ Abs(x) > MaxI32 \div Abs(y)
              /\ ~(Abs(x) = (MaxI32 \div Abs(y)) + 1 /\ MaxI32 % Abs(y) = Abs(y) - 1)

\* x * y modulo 2^32, by 16-bit halves of the two's-complement words (no
\* intermediate value leaves the 32-bit integers of the model checker)
Lo16(x) == x % 65536
Hi16(x) == (x \div 65536) % 65536
MulLo16(u, v) == (((u % 256) * v) + (((u \div 256) * v) % 256) * 256) % 65536
MulHi16(u, v) ==
    LET t0 == (u % 256) * v
        t1 == (u \div 256) * v
    IN  (t1 \div 256) + (((t1 % 256) * 256 + t0) \div 65536)

WrappingMul(x, y) ==
    LET lo == MulLo16(Lo16(x), Lo16(y))
        hi == (MulHi16(Lo16(x), Lo16(y)) + MulLo16(Hi16(x), Lo16(y))
                 + MulLo16(Lo16(x), Hi16(y))) % 65536
    IN  IF hi >= 32768 THEN (hi - 65536) * 65536 + lo ELSE hi * 65536 + lo

(***************************************************************************)
(* f32 (IEEE 754 binary32, round to nearest, ties to even).  A finite      *)
(* nonzero value is [m, e] = m * 2^e with 2^23 <= |m| < 2^24 and           *)
(* -149 <= e <= 104 (the normal range); zero is [0, 0] (the sign of a zero *)
(* is not kept: no operation modelled here reads it).  A result outside    *)
(* the normal range (subnormal, infinite, NaN) is OutOfRange and is not    *)
(* followed further: every operation on it yields it.                      *)
(***************************************************************************)
Pow2(i) ==
    <<1, 2, 4, 8, 16, 32, 64, 128, 256, 512, 1024, 2048, 4096, 8192, 16384, 32768,
      65536, 131072, 262144, 524288, 1048576, 2097152, 4194304, 8388608, 16777216,
      33554432, 67108864, 134217728, 268435456, 536870912, 1073741824>>[i + 1]

\* the number of bits of M, 1 <= M <= MaxI32
BitLen(M) == CHOOSE n \in 1 .. 31 : M >= Pow2(n - 1) /\ (n = 31 \/ M < Pow2(n))

OutOfRange == [m |-> 0, e |-> 1]
FZero == [m |-> 0, e |-> 0]
FIsOut(x) == x = OutOfRange

F32Pack(sign, m, e) ==
    IF e < -149 \/ e > 104 THEN OutOfRange ELSE [m |-> sign * m, e |-> e]

\* sign * (M + s) * 2^e rounded to 24 bits, where 0 <= M <= MaxI32 and s = 0,
\* or 0 < s < 1 when sticky (then M has at least 26 bits)
F32Round(sign, M, e, sticky) ==
    IF M = 0 THEN FZero
    ELSE LET n == BitLen(M)
         IN  IF n <= 24 THEN F32Pack(sign, M * Pow2(24 - n), e - (24 - n))
             ELSE LET sh == n - 24
                      kept == M \div Pow2(sh)
                      rem == M % Pow2(sh)
                      half == Pow2(sh - 1)
                      up == rem > half \/ (rem = half /\ (sticky \/ kept % 2 = 1))
                      r == IF up THEN kept + 1 ELSE kept
                  IN  IF r = 16777216 THEN F32Pack(sign, 8388608, e + sh + 1)
                      ELSE F32Pack(sign, r, e + sh)

FSign(x) == IF x.m < 0 THEN -1 ELSE 1
FMag(x) == IF x.m < 0 THEN -x.m ELSE x.m

\* `n as f32`
F32FromI32(n) ==
    IF n = MinI32 THEN [m |-> -8388608, e |-> 8]
    ELSE F32Round(IF n < 0 THEN -1 ELSE 1, Abs(n), 0, FALSE)

FNeg(x) == IF FIsOut(x) THEN x ELSE [m |-> -x.m, e |-> x.e]
FAbs(x) == IF FIsOut(x) THEN x ELSE [m |-> FMag(x), e |-> x.e]

\* x * y
FMul(x, y) ==
    IF FIsOut(x) \/ FIsOut(y) THEN OutOfRange
    ELSE IF x.m = 0 \/ y.m = 0 THEN FZero
    ELSE LET u == FMag(x)
             v == FMag(y)
             uh == u \div 4096
             ul == u % 4096
             vh == v \div 4096
             vl == v % 4096
             mid == uh * vl + ul * vh
             low == (mid % 4096) * 4096 + ul * vl
             P0 == low % 16777216
             P1 == uh * vh + (mid \div 4096) + (low \div 16777216)
         IN  F32Round(FSign(x) * FSign(y), P1 * 64 + (P0 \div 262144),
                      x.e + y.e + 18, P0 % 262144 # 0)

\* x / y for y # 0
FDiv(x, y) ==
    IF FIsOut(x) \/ FIsOut(y) \/ y.m = 0 THEN OutOfRange
    ELSE IF x.m = 0 THEN FZero
    ELSE LET u == FMag(x)
             v == FMag(y)
             q0 == u \div v
             r0 == u % v
             q1 == (r0 * 128) \div v
             r1 == (r0 * 128) % v
             q2 == (r1 * 128) \div v
             r2 == (r1 * 128) % v
             q3 == (r2 * 128) \div v
             r3 == (r2 * 128) % v
             q4 == (r3 * 128) \div v
             r4 == (r3 * 128) % v
         IN  F32Round(FSign(x) * FSign(y),
                      (((q0 * 128 + q1) * 128 + q2) * 128 + q3) * 128 + q4,
                      x.e - y.e - 28, r4 # 0)

\* x + y
FAdd(x, y) ==
    IF FIsOut(x) \/ FIsOut(y) THEN OutOfRange
    ELSE IF x.m = 0 THEN y
    ELSE IF y.m = 0 THEN x
    ELSE LET hi == IF x.e >= y.e THEN x ELSE y
             lo == IF x.e >= y.e THEN y ELSE x
             d == hi.e - lo.e
             Mhi == FMag(hi) * 64
             exact == d <= 6
             Mlo == IF exact THEN FMag(lo) * Pow2(6 - d)
                    ELSE IF d - 6 > 30 THEN 0
                    ELSE FMag(lo) \div Pow2(d - 6)
             sticky == ~exact /\ (d - 6 > 30 \/ FMag(lo) % Pow2(d - 6) # 0)
             same == FSign(hi) = FSign(lo)
             S == IF same THEN Mhi + Mlo
                  ELSE IF sticky THEN Mhi - Mlo - 1
                  ELSE Mhi - Mlo
         IN  IF S >= 0 THEN F32Round(FSign(hi), S, hi.e - 6, sticky)
             ELSE F32Round(-FSign(hi), -S, hi.e - 6, sticky)

FSub(x, y) == FAdd(x, FNeg(y))

\* x > y
FGt(x, y) ==
    /\ ~FIsOut(x) /\ ~FIsOut(y)
    /\ \/ x.m > 0 /\ y.m <= 0
       \/ x.m = 0 /\ y.m < 0
       \/ x.m > 0 /\ y.m > 0 /\ (x.e > y.e \/ (x.e = y.e /\ x.m > y.m))
       \/ x.m < 0 /\ y.m < 0 /\ (x.e < y.e \/ (x.e = y.e /\ x.m > y.m))

\* f32::round: to the nearest integer, halves away from zero
FRound(x) ==
    IF FIsOut(x) \/ x.m = 0 \/ x.e >= 0 THEN x
    ELSE IF -x.e > 24 THEN FZero
    ELSE LET sh == -x.e
             kept == FMag(x) \div Pow2(sh)
             rem == FMag(x) % Pow2(sh)
             n == IF 2 * rem >= Pow2(sh) THEN kept + 1 ELSE kept
         IN  F32Round(FSign(x), n, 0, FALSE)

\* `x as i32`: truncated toward zero, saturating
F32ToI32(x) ==
    IF x.m = 0 THEN 0
    ELSE IF x.e > 7 THEN (IF x.m < 0 THEN MinI32 ELSE MaxI32)
    ELSE IF x.e >= 0 THEN x.m * Pow2(x.e)
    ELSE IF -x.e > 24 THEN 0
    ELSE FSign(x) * (FMag(x) \div Pow2(-x.e))

(***************************************************************************)
(* The position types.  A value carries its type's name; Panic is the      *)
(* outcome of a call that panicked.                                        *)
(***************************************************************************)
Panic == [ty |-> "panic"]

AxialPos(q, r)   == [ty |-> "AxialPos",   q |-> q, r |-> r]
RowOddPos(q, r)  == [ty |-> "RowOddPos",  q |-> q, r |-> r]
RowEvenPos(q, r) == [ty |-> "RowEvenPos", q |-> q, r |-> r]
ColOddPos(q, r)  == [ty |-> "ColOddPos",  q |-> q, r |-> r]
ColEvenPos(q, r) == [ty |-> "ColEvenPos", q |-> q, r |-> r]

OffsetTypes == {"RowOddPos", "RowEvenPos", "ColOddPos", "ColEvenPos"}
PosTypes == {"AxialPos"} \cup OffsetTypes

(***************************************************************************)
(* fn ceiled_division_by_2(x: i32) -> i32                                  *)
(***************************************************************************)
ceiled_division_by_2_overflows(x) ==
    IF x < 0 THEN SubOverflows(x, 1) ELSE AddOverflows(x, 1)

ceiled_division_by_2(x) ==
    IF x < 0 THEN DivBy2(WrappingSub(x, 1)) ELSE DivBy2(WrappingAdd(x, 1))

(***************************************************************************)
(* impl From<AxialPos> for RowOddPos, and the seven other conversions.     *)
(* Each conversion f has f_overflows: whether an operation of it           *)
(* overflows on that input.                                                *)
(***************************************************************************)
RowOddPos_from_AxialPos(axial_pos) ==
    LET q == axial_pos.q
        r == axial_pos.r
        delta == DivBy2(r)
    IN  RowOddPos(WrappingAdd(q, delta), r)

RowOddPos_from_AxialPos_overflows(axial_pos) ==
    AddOverflows(axial_pos.q, DivBy2(axial_pos.r))

\* AxialPos::from(RowOddPos) with the shear added instead of subtracted
AxialPos_from_RowOddPos_Added(offset_pos) ==
    AxialPos(WrappingAdd(offset_pos.q, DivBy2(offset_pos.r)), offset_pos.r)

AxialPos_from_RowOddPos(offset_pos) ==
    LET q == offset_pos.q
        r == offset_pos.r
        delta == DivBy2(r)
    IN  AxialPos(WrappingSub(q, delta), r)

AxialPos_from_RowOddPos_overflows(offset_pos) ==
    SubOverflows(offset_pos.q, DivBy2(offset_pos.r))

RowEvenPos_from_AxialPos(axial_pos) ==
    LET q == axial_pos.q
        r == axial_pos.r
        delta == ceiled_division_by_2(r)
    IN  RowEvenPos(WrappingAdd(q, delta), r)

RowEvenPos_from_AxialPos_overflows(axial_pos) ==
    \/ ceiled_division_by_2_overflows(axial_pos.r)
    \/ AddOverflows(axial_pos.q, ceiled_division_by_2(axial_pos.r))

AxialPos_from_RowEvenPos(offset_pos) ==
    LET q == offset_pos.q
        r == offset_pos.r
        delta == ceiled_division_by_2(r)
    IN  AxialPos(WrappingSub(q, delta), r)

AxialPos_from_RowEvenPos_overflows(offset_pos) ==
    \/ ceiled_division_by_2_overflows(offset_pos.r)
    \/ SubOverflows(offset_pos.q, ceiled_division_by_2(offset_pos.r))

ColOddPos_from_AxialPos(axial_pos) ==
    LET q == axial_pos.q
        r == axial_pos.r
        delta == DivBy2(q)
    IN  ColOddPos(q, WrappingAdd(r, delta))

ColOddPos_from_AxialPos_overflows(axial_pos) ==
    AddOverflows(axial_pos.r, DivBy2(axial_pos.q))

AxialPos_from_ColOddPos(offset_pos) ==
    LET q == offset_pos.q
        r == offset_pos.r
        delta == DivBy2(q)
    IN  AxialPos(q, WrappingSub(r, delta))

AxialPos_from_ColOddPos_overflows(offset_pos) ==
    SubOverflows(offset_pos.r, DivBy2(offset_pos.q))

ColEvenPos_from_AxialPos(axial_pos) ==
    LET q == axial_pos.q
        r == axial_pos.r
        delta == ceiled_division_by_2(q)
    IN  ColEvenPos(q, WrappingAdd(r, delta))

ColEvenPos_from_AxialPos_overflows(axial_pos) ==
    \/ ceiled_division_by_2_overflows(axial_pos.q)
    \/ AddOverflows(axial_pos.r, ceiled_division_by_2(axial_pos.q))

AxialPos_from_ColEvenPos(offset_pos) ==
    LET q == offset_pos.q
        r == offset_pos.r
        delta == ceiled_division_by_2(q)
    IN  AxialPos(q, WrappingSub(r, delta))

AxialPos_from_ColEvenPos_overflows(offset_pos) ==
    \/ ceiled_division_by_2_overflows(offset_pos.q)
    \/ SubOverflows(offset_pos.r, ceiled_division_by_2(offset_pos.q))

(***************************************************************************)
(* impl Add<AxialPos> for AxialPos, Sub<AxialPos> for AxialPos,            *)
(* Mul<AxialPos> for i32                                                   *)
(***************************************************************************)
\* Add with the r components subtracted
AxialPos_add_SubR(self, rhs) ==
    AxialPos(WrappingAdd(self.q, rhs.q), WrappingSub(self.r, rhs.r))

AxialPos_add(self, rhs) ==
    AxialPos(WrappingAdd(self.q, rhs.q), WrappingAdd(self.r, rhs.r))

AxialPos_add_overflows(self, rhs) ==
    AddOverflows(self.q, rhs.q) \/ AddOverflows(self.r, rhs.r)

\* Sub with the r components added
AxialPos_sub_AddR(self, rhs) ==
    AxialPos(WrappingSub(self.q, rhs.q), WrappingAdd(self.r, rhs.r))

AxialPos_sub(self, rhs) ==
    AxialPos(WrappingSub(self.q, rhs.q), WrappingSub(self.r, rhs.r))

AxialPos_sub_overflows(self, rhs) ==
    SubOverflows(self.q, rhs.q) \/ SubOverflows(self.r, rhs.r)

i32_mul_AxialPos(self, rhs) ==
    AxialPos(WrappingMul(self, rhs.q), WrappingMul(self, rhs.r))

i32_mul_AxialPos_overflows(self, rhs) ==
    MulOverflows(self, rhs.q) \/ MulOverflows(self, rhs.r)

(***************************************************************************)
(* CubePos (hex_grid/cube.rs): s = -q - r, magnitude (|q| + |r| + |s|) / 2 *)
(***************************************************************************)
I32(v) == [ty |-> "i32", v |-> v]

\* i32::abs: overflows on i32::MIN, which it returns when wrapping
WrappingAbs(x) == IF x < 0 THEN WrappingSub(0, x) ELSE x

CubePos_from_AxialPos(axial_pos) ==
    LET q == axial_pos.q
        r == axial_pos.r
    IN  [ty |-> "CubePos", q |-> q, r |-> r, s |-> WrappingSub(WrappingSub(0, q), r)]

CubePos_from_AxialPos_overflows(axial_pos) ==
    \/ SubOverflows(0, axial_pos.q)
    \/ SubOverflows(WrappingSub(0, axial_pos.q), axial_pos.r)

CubePos_magnitude(self) ==
    DivBy2(WrappingAdd(WrappingAdd(WrappingAbs(self.q), WrappingAbs(self.r)),
                       WrappingAbs(self.s)))

CubePos_magnitude_overflows(self) ==
    \/ self.q = MinI32 \/ self.r = MinI32 \/ self.s = MinI32
    \/ AddOverflows(WrappingAbs(self.q), WrappingAbs(self.r))
    \/ AddOverflows(WrappingAdd(WrappingAbs(self.q), WrappingAbs(self.r)), WrappingAbs(self.s))

(***************************************************************************)
(* AxialPos::magnitude, AxialPos::distance_from                            *)
(***************************************************************************)
AxialPos_magnitude(self) ==
    LET cube_pos == CubePos_from_AxialPos(self)
    IN  CubePos_magnitude(cube_pos)

AxialPos_magnitude_overflows(self) ==
    \/ CubePos_from_AxialPos_overflows(self)
    \/ CubePos_magnitude_overflows(CubePos_from_AxialPos(self))

\* distance_from that measures self alone
AxialPos_distance_from_Self(self, other) == I32(AxialPos_magnitude(self))

AxialPos_distance_from(self, other) ==
    I32(AxialPos_magnitude(AxialPos_sub(self, other)))

AxialPos_distance_from_overflows(self, other) ==
    \/ AxialPos_sub_overflows(self, other)
    \/ AxialPos_magnitude_overflows(AxialPos_sub(self, other))

(***************************************************************************)
(* TilePos::from_i32_pair (tiles/mod.rs): Some(TilePos {x, y}) when both   *)
(* are non-negative and within the map, else None.                         *)
(***************************************************************************)
None == [ty |-> "None"]
Some(v) == [ty |-> "Some", v |-> v]
TilePos(x, y) == [ty |-> "TilePos", x |-> x, y |-> y]

TilePos_from_i32_pair(x, y, size) ==
    IF x < 0 \/ y < 0 THEN None
    ELSE IF x < size.x /\ y < size.y THEN Some(TilePos(x, y))
    ELSE None

(***************************************************************************)
(* AxialPos::as_tile_pos and the four offset types' as_tile_pos            *)
(***************************************************************************)
\* as_tile_pos passing r for x and q for y
AxialPos_as_tile_pos_Swapped(self, size) == TilePos_from_i32_pair(self.r, self.q, size)

AxialPos_as_tile_pos(self, size) == TilePos_from_i32_pair(self.q, self.r, size)
RowOddPos_as_tile_pos(self, size) == TilePos_from_i32_pair(self.q, self.r, size)
RowEvenPos_as_tile_pos(self, size) == TilePos_from_i32_pair(self.q, self.r, size)
ColOddPos_as_tile_pos(self, size) == TilePos_from_i32_pair(self.q, self.r, size)
ColEvenPos_as_tile_pos(self, size) == TilePos_from_i32_pair(self.q, self.r, size)

\* The outcome of a call in the build at hand
Call(overflows, value) == IF overflow_checks /\ overflows THEN Panic ELSE value

(***************************************************************************)
(* Inputs.                                                                 *)
(***************************************************************************)
SmallCoords == -MaxCoord .. MaxCoord
EdgeCoords == {MinI32, MinI32 + 1, MaxI32 - 1, MaxI32}
Coords == SmallCoords \cup EdgeCoords

Idle == [ty |-> "none"]

(***************************************************************************)
(* SpecOffset: a caller holds a position `a` of one of the five types and  *)
(* converts it up to MaxSteps times; res is the sequence of the values     *)
(* the conversions returned.                                               *)
(***************************************************************************)
Chain == <<a>> \o res
Cur == Chain[Len(Chain)]

InitOffset ==
    /\ overflow_checks \in BOOLEAN
    /\ a \in [ty : PosTypes, q : Coords, r : Coords]
    /\ b = Idle /\ c = Idle /\ k = 0
    /\ grid_size = Idle /\ map_size = Idle
    /\ pc = "convert"
    /\ res = <<>>

Convert(from, overflows, value) ==
    /\ pc = "convert"
    /\ Len(res) < MaxSteps
    /\ Cur.ty = from
    /\ res' = Append(res, Call(overflows, value))
    /\ UNCHANGED <<overflow_checks, a, b, c, k, grid_size, map_size, pc>>

IntoRowOdd ==
    Convert("AxialPos", RowOddPos_from_AxialPos_overflows(Cur), RowOddPos_from_AxialPos(Cur))
FromRowOdd ==
    Convert("RowOddPos", AxialPos_from_RowOddPos_overflows(Cur), AxialPos_from_RowOddPos(Cur))
IntoRowEven ==
    Convert("AxialPos", RowEvenPos_from_AxialPos_overflows(Cur), RowEvenPos_from_AxialPos(Cur))
FromRowEven ==
    Convert("RowEvenPos", AxialPos_from_RowEvenPos_overflows(Cur), AxialPos_from_RowEvenPos(Cur))
IntoColOdd ==
    Convert("AxialPos", ColOddPos_from_AxialPos_overflows(Cur), ColOddPos_from_AxialPos(Cur))
FromColOdd ==
    Convert("ColOddPos", AxialPos_from_ColOddPos_overflows(Cur), AxialPos_from_ColOddPos(Cur))
IntoColEven ==
    Convert("AxialPos", ColEvenPos_from_AxialPos_overflows(Cur), ColEvenPos_from_AxialPos(Cur))
FromColEven ==
    Convert("ColEvenPos", AxialPos_from_ColEvenPos_overflows(Cur), AxialPos_from_ColEvenPos(Cur))

NextOffset ==
    \/ IntoRowOdd \/ FromRowOdd
    \/ IntoRowEven \/ FromRowEven
    \/ IntoColOdd \/ FromColOdd
    \/ IntoColEven \/ FromColEven

SpecOffset == InitOffset /\ [][NextOffset]_vars

(***************************************************************************)
(* Claims about the offset conversions.                                    *)
(***************************************************************************)
Floor2(x) == x \div 2
Ceil2(x) == x - (x \div 2)
Steps == 1 .. Len(res)
Returned(i) == res[i] # Panic

C2_OddShearFloors ==
    \A i \in Steps :
        LET p == Chain[i]
            o == res[i]
        IN  Returned(i) =>
              /\ (p.ty = "AxialPos" /\ o.ty = "RowOddPos") =>
                    o.q = WrappingAdd(p.q, Floor2(p.r)) /\ o.r = p.r
              /\ (p.ty = "RowOddPos") =>
                    o.q = WrappingSub(p.q, Floor2(p.r)) /\ o.r = p.r
              /\ (p.ty = "AxialPos" /\ o.ty = "ColOddPos") =>
                    o.r = WrappingAdd(p.r, Floor2(p.q)) /\ o.q = p.q
              /\ (p.ty = "ColOddPos") =>
                    o.r = WrappingSub(p.r, Floor2(p.q)) /\ o.q = p.q

\* C3: the Even conversions shear by the ceiling of half the other component:
\* RowEvenPos::from(AxialPos{q,r}) = {q + ceil(r/2), r},
\* ColEvenPos::from(AxialPos{q,r}) = {q, r + ceil(q/2)},
\* and the inverses subtract the same term.
C3_EvenShearCeils ==
    \A i \in Steps :
        LET p == Chain[i]
            o == res[i]
        IN  Returned(i) =>
              /\ (p.ty = "AxialPos" /\ o.ty = "RowEvenPos") =>
                    o.q = WrappingAdd(p.q, Ceil2(p.r)) /\ o.r = p.r
              /\ (p.ty = "RowEvenPos") =>
                    o.q = WrappingSub(p.q, Ceil2(p.r)) /\ o.r = p.r
              /\ (p.ty = "AxialPos" /\ o.ty = "ColEvenPos") =>
                    o.r = WrappingAdd(p.r, Ceil2(p.q)) /\ o.q = p.q
              /\ (p.ty = "ColEvenPos") =>
                    o.r = WrappingSub(p.r, Ceil2(p.q)) /\ o.q = p.q

(***************************************************************************)
(* SpecShear: SpecOffset on the small coordinates alone, where no          *)
(* conversion overflows.                                                   *)
(***************************************************************************)
InitShear == InitOffset /\ a.q \in SmallCoords /\ a.r \in SmallCoords

SpecShear == InitShear /\ [][NextOffset]_vars

(***************************************************************************)
(* SpecArith: one call of a + b, a - b or k * b.                           *)
(***************************************************************************)
ArithCoords == (-MaxScalar .. MaxScalar) \cup {MinI32, MaxI32}

InitArith ==
    /\ overflow_checks \in BOOLEAN
    /\ a \in [ty : {"AxialPos"}, q : ArithCoords, r : ArithCoords]
    /\ b \in [ty : {"AxialPos"}, q : ArithCoords, r : ArithCoords]
    /\ k \in ArithCoords
    /\ c = Idle /\ grid_size = Idle /\ map_size = Idle
    /\ pc = "call"
    /\ res = <<>>

Add ==
    /\ pc = "call"
    /\ res' = <<Call(AxialPos_add_overflows(a, b), AxialPos_add(a, b))>>
    /\ pc' = "add"
    /\ UNCHANGED <<overflow_checks, a, b, c, k, grid_size, map_size>>

Sub ==
    /\ pc = "call"
    /\ res' = <<Call(AxialPos_sub_overflows(a, b), AxialPos_sub(a, b))>>
    /\ pc' = "sub"
    /\ UNCHANGED <<overflow_checks, a, b, c, k, grid_size, map_size>>

Mul ==
    /\ pc = "call"
    /\ res' = <<Call(i32_mul_AxialPos_overflows(k, b), i32_mul_AxialPos(k, b))>>
    /\ pc' = "mul"
    /\ UNCHANGED <<overflow_checks, a, b, c, k, grid_size, map_size>>

NextArith == Add \/ Sub \/ Mul

SpecArith == InitArith /\ [][NextArith]_vars

(***************************************************************************)
(* Claims about the arithmetic.  The mathematical integers the results are *)
(* compared with are pairs: Z(x) = <hi, lo> with x = hi * 2^16 + lo.       *)
(***************************************************************************)
Z(x) == [hi |-> x \div 65536, lo |-> x % 65536]
ZAdd(u, v) == [hi |-> u.hi + v.hi + ((u.lo + v.lo) \div 65536), lo |-> (u.lo + v.lo) % 65536]
ZNeg(u) == IF u.lo = 0 THEN [hi |-> -u.hi, lo |-> 0] ELSE [hi |-> -u.hi - 1, lo |-> 65536 - u.lo]
ZSub(u, v) == ZAdd(u, ZNeg(v))
ZFits(u) == u.hi \in -32768 .. 32767
\* v is the i32 that z wraps to
ZWraps(z, v) == Z(v).lo = z.lo /\ (Z(v).hi - z.hi) % 65536 = 0

\* v = x * y in the integers
IsProduct(v, x, y) ==
    IF x = 0 \/ y = 0 THEN v = 0
    ELSE IF y = MinI32 THEN x = 1 /\ v = MinI32
    ELSE IF x = MinI32 THEN y = 1 /\ v = MinI32
    ELSE IF v = MinI32
         THEN /\ (x < 0) # (y < 0)
              /\ MaxI32 % Abs(y) = Abs(y) - 1
              /\ (MaxI32 \div Abs(y)) + 1 = Abs(x)
    ELSE /\ (v < 0) = ((x < 0) # (y < 0))
         /\ Abs(v) % Abs(y) = 0
         /\ Abs(v) \div Abs(y) = Abs(x)

SumFits == ZFits(ZAdd(Z(a.q), Z(b.q))) /\ ZFits(ZAdd(Z(a.r), Z(b.r)))
DiffFits == ZFits(ZSub(Z(a.q), Z(b.q))) /\ ZFits(ZSub(Z(a.r), Z(b.r)))
ProductFits ==
    /\ IsProduct(WrappingMul(k, b.q), k, b.q)
    /\ IsProduct(WrappingMul(k, b.r), k, b.r)

IsSum(v) ==
    /\ v # Panic
    /\ Z(v.q) = ZAdd(Z(a.q), Z(b.q))
    /\ Z(v.r) = ZAdd(Z(a.r), Z(b.r))
IsDiff(v) ==
    /\ v # Panic
    /\ Z(v.q) = ZSub(Z(a.q), Z(b.q))
    /\ Z(v.r) = ZSub(Z(a.r), Z(b.r))
IsScaled(v) ==
    /\ v # Panic
    /\ IsProduct(v.q, k, b.q)
    /\ IsProduct(v.r, k, b.r)

\* C9, as stated: a + b, a - b and k * b always return the elementwise
\* mathematical sum, difference and product: no overflow failure, no
\* wrapped result.
C9_ArithmeticTotal ==
    /\ pc = "add" => IsSum(res[1])
    /\ pc = "sub" => IsDiff(res[1])
    /\ pc = "mul" => IsScaled(res[1])

\* C9, amended: a + b, a - b and k * b return the elementwise mathematical
\* result whenever every component of it fits in i32; when one does not, the
\* call panics in a build with overflow checks and returns the components
\* wrapped modulo 2^32 in a build without.
C9_ArithmeticInRange ==
    /\ pc = "add" =>
          /\ SumFits => IsSum(res[1])
          /\ ~SumFits /\ overflow_checks => res[1] = Panic
          /\ ~SumFits /\ ~overflow_checks =>
                /\ res[1] # Panic /\ ~IsSum(res[1])
                /\ ZWraps(ZAdd(Z(a.q), Z(b.q)), res[1].q)
                /\ ZWraps(ZAdd(Z(a.r), Z(b.r)), res[1].r)
    /\ pc = "sub" =>
          /\ DiffFits => IsDiff(res[1])
          /\ ~DiffFits /\ overflow_checks => res[1] = Panic
          /\ ~DiffFits /\ ~overflow_checks =>
                /\ res[1] # Panic /\ ~IsDiff(res[1])
                /\ ZWraps(ZSub(Z(a.q), Z(b.q)), res[1].q)
                /\ ZWraps(ZSub(Z(a.r), Z(b.r)), res[1].r)
    /\ pc = "mul" =>
          /\ ProductFits => IsScaled(res[1])
          /\ ~ProductFits /\ overflow_checks => res[1] = Panic
          /\ ~ProductFits /\ ~overflow_checks =>
                /\ res[1] # Panic /\ ~IsScaled(res[1])
                /\ res[1] = AxialPos(WrappingMul(k, b.q), WrappingMul(k, b.r))

C9_Witness ==
    /\ pc = "add"
    /\ a = AxialPos(-2, 1) /\ b = AxialPos(1, -2)
    /\ res[1] = AxialPos(-1, -1)

(***************************************************************************)
(* SpecDist: a caller measures a to b, b to c and a to c, in that order.   *)
(***************************************************************************)
DistCoords == -MaxDist .. MaxDist
DistPositions ==
    [ty : {"AxialPos"}, q : DistCoords, r : DistCoords]
      \cup {AxialPos(MinI32, 0), AxialPos(MaxI32, 0), AxialPos(0, MinI32), AxialPos(0, MaxI32),
            AxialPos(MaxI32, MaxI32), AxialPos(MinI32, MinI32), AxialPos(MaxI32, MinI32)}

InitDist ==
    /\ overflow_checks \in BOOLEAN
    /\ a \in DistPositions /\ b \in DistPositions /\ c \in DistPositions
    /\ k = 0 /\ grid_size = Idle /\ map_size = Idle
    /\ pc = "ab"
    /\ res = <<>>

DistanceAB ==
    /\ pc = "ab"
    /\ res' = Append(res, Call(AxialPos_distance_from_overflows(a, b), AxialPos_distance_from(a, b)))
    /\ pc' = "bc"
    /\ UNCHANGED <<overflow_checks, a, b, c, k, grid_size, map_size>>

DistanceBC ==
    /\ pc = "bc"
    /\ res[1] # Panic
    /\ res' = Append(res, Call(AxialPos_distance_from_overflows(b, c), AxialPos_distance_from(b, c)))
    /\ pc' = "ac"
    /\ UNCHANGED <<overflow_checks, a, b, c, k, grid_size, map_size>>

DistanceAC ==
    /\ pc = "ac"
    /\ res[2] # Panic
    /\ res' = Append(res, Call(AxialPos_distance_from_overflows(a, c), AxialPos_distance_from(a, c)))
    /\ pc' = "done"
    /\ UNCHANGED <<overflow_checks, a, b, c, k, grid_size, map_size>>

NextDist == DistanceAB \/ DistanceBC \/ DistanceAC

SpecDist == InitDist /\ [][NextDist]_vars

(***************************************************************************)
(* Claims about distance_from.                                             *)
(***************************************************************************)
ZLeq(u, v) == u.hi < v.hi \/ (u.hi = v.hi /\ u.lo <= v.lo)
\* the pair a call of the caller measured
Measured(i) == <<<<a, b>>, <<b, c>>, <<a, c>>>>[i]
InRange(i) == ~AxialPos_distance_from_overflows(Measured(i)[1], Measured(i)[2])
IsSmall(p) == p.q \in DistCoords /\ p.r \in DistCoords

\* C6, as stated: for all AxialPos a, b, c every distance is returned and
\* a.distance_from(c) <= a.distance_from(b) + b.distance_from(c).
C6_TriangleTotal ==
    /\ \A i \in Steps : Returned(i)
    /\ Len(res) = 3 => ZLeq(Z(res[3].v), ZAdd(Z(res[1].v), Z(res[2].v)))

\* C6, amended: whenever the three distance computations stay within i32,
\* a.distance_from(c) <= a.distance_from(b) + b.distance_from(c); they stay
\* within i32 for all small coordinates, and a computation that does not
\* panics in a build with overflow checks.
C6_Triangle ==
    /\ (Len(res) = 3 /\ \A i \in Steps : InRange(i)) =>
          /\ \A i \in Steps : Returned(i)
          /\ res[3].v <= res[1].v + res[2].v
    /\ \A i \in Steps : ~Returned(i) => overflow_checks /\ ~InRange(i)
    /\ \A i \in Steps : (IsSmall(Measured(i)[1]) /\ IsSmall(Measured(i)[2])) => InRange(i)

C6_Witness ==
    /\ Len(res) = 3
    /\ a = AxialPos(-2, 1) /\ b = AxialPos(0, 0) /\ c = AxialPos(2, -1)
    /\ res[1] = I32(2) /\ res[2] = I32(2) /\ res[3] = I32(4)

\* C7, as stated: for all AxialPos x, y the distance is returned, and it is
\* 0 exactly when x = y.
C7_ZeroIffEqualTotal ==
    \A i \in Steps :
        /\ Returned(i)
        /\ res[i].v = 0 <=> Measured(i)[1] = Measured(i)[2]

\* C7, amended: x.distance_from(x) = 0 whenever it returns, which it does in
\* every build; and whenever the distance of two distinct positions is
\* computed within i32 it is at least 1.
C7_ZeroIffEqual ==
    \A i \in Steps :
        LET x == Measured(i)[1]
            y == Measured(i)[2]
        IN  /\ x = y => res[i] = I32(0)
            /\ (x # y /\ InRange(i)) => Returned(i) /\ res[i].v >= 1
            /\ ~Returned(i) => overflow_checks /\ ~InRange(i)

C7_Witness ==
    /\ Len(res) = 3
    /\ a = AxialPos(1, -2) /\ b = a /\ c = AxialPos(1, -1)
    /\ res[1] = I32(0) /\ res[2] = I32(1)

(***************************************************************************)
(* SpecTile: one call of as_tile_pos on a position of one of the five      *)
(* types, against a map size.                                              *)
(***************************************************************************)
InitTile ==
    /\ overflow_checks = FALSE
    /\ a \in [ty : PosTypes, q : Coords, r : Coords]
    /\ map_size \in [x : 0 .. MaxMap, y : 0 .. MaxMap]
    /\ b = Idle /\ c = Idle /\ k = 0 /\ grid_size = Idle
    /\ pc = "call"
    /\ res = <<>>

AsTilePos(ty, value) ==
    /\ pc = "call"
    /\ a.ty = ty
    /\ res' = <<value>>
    /\ pc' = "as_tile_pos"
    /\ UNCHANGED <<overflow_checks, a, b, c, k, grid_size, map_size>>

AxialAsTilePos == AsTilePos("AxialPos", AxialPos_as_tile_pos(a, map_size))
RowOddAsTilePos == AsTilePos("RowOddPos", RowOddPos_as_tile_pos(a, map_size))
RowEvenAsTilePos == AsTilePos("RowEvenPos", RowEvenPos_as_tile_pos(a, map_size))
ColOddAsTilePos == AsTilePos("ColOddPos", ColOddPos_as_tile_pos(a, map_size))
ColEvenAsTilePos == AsTilePos("ColEvenPos", ColEvenPos_as_tile_pos(a, map_size))

NextTile ==
    \/ AxialAsTilePos \/ RowOddAsTilePos \/ RowEvenAsTilePos
    \/ ColOddAsTilePos \/ ColEvenAsTilePos

SpecTile == InitTile /\ [][NextTile]_vars

\* C8: as_tile_pos returns Some only if q and r are both non-negative, q is
\* below the map's width and r below its height; in every other case (such
\* as q = -1) it returns None.
C8_AsTilePosBounded ==
    pc = "as_tile_pos" =>
        /\ res[1].ty \in {"Some", "None"}
        /\ res[1].ty = "Some" =>
              /\ a.q >= 0 /\ a.r >= 0
              /\ a.q < map_size.x /\ a.r < map_size.y
        /\ (a.q < 0 \/ a.r < 0 \/ a.q >= map_size.x \/ a.r >= map_size.y) => res[1] = None

C8_Witness ==
    /\ pc = "as_tile_pos"
    /\ a = AxialPos(-1, 0) /\ map_size = [x |-> 3, y |-> 3]
    /\ res[1] = None

(***************************************************************************)
(* World mapping.  Vec2 and Mat2 are glam's: a Mat2 is two column vectors, *)
(* and Mat2 * Vec2 is x_axis * v.x + y_axis * v.y, in f32.                 *)
(***************************************************************************)
Vec2(x, y) == [x |-> x, y |-> y]
Mat2_from_cols(x_axis, y_axis) == [x_axis |-> x_axis, y_axis |-> y_axis]

Mat2_mul_Vec2(mat, v) ==
    Vec2(FAdd(FMul(mat.x_axis.x, v.x), FMul(mat.y_axis.x, v.y)),
         FAdd(FMul(mat.x_axis.y, v.x), FMul(mat.y_axis.y, v.y)))

\* the f32 literals 1.0 and 0.5
F32_One == F32FromI32(1)
F32_Half == FDiv(F32FromI32(1), F32FromI32(2))

\* hex_grid/consts.rs: the f32 nearest to sqrt(3)/2, 1/sqrt(3), 2/sqrt(3)
HALF_SQRT_3 == [m |-> 14529495, e |-> -24]
INV_SQRT_3 == [m |-> 9686330, e |-> -24]
DOUBLE_INV_SQRT_3 == [m |-> 9686330, e |-> -23]

ROW_BASIS == Mat2_from_cols(Vec2(F32_One, FZero), Vec2(F32_Half, HALF_SQRT_3))

INV_ROW_BASIS ==
    Mat2_from_cols(Vec2(F32_One, FZero),
                   Vec2(FMul(FNeg(F32_One), INV_SQRT_3), DOUBLE_INV_SQRT_3))

COL_BASIS == Mat2_from_cols(Vec2(HALF_SQRT_3, F32_Half), Vec2(FZero, F32_One))

INV_COL_BASIS ==
    Mat2_from_cols(Vec2(DOUBLE_INV_SQRT_3, FMul(FNeg(F32_One), INV_SQRT_3)),
                   Vec2(FZero, F32_One))

(***************************************************************************)
(* FractionalCubePos (hex_grid/cube.rs): s = -q - r; round rounds each     *)
(* axis to the nearest integer and recomputes the axis whose residual is   *)
(* the largest from the other two.  Which axis is recomputed when two      *)
(* residuals tie for the largest is not fixed: round is the set of the     *)
(* results over every choice.                                              *)
(***************************************************************************)
FractionalAxialPos(q, r) == [ty |-> "FractionalAxialPos", q |-> q, r |-> r]

FractionalAxialPos_from_Vec2(v) == FractionalAxialPos(v.x, v.y)

FractionalCubePos_from_FractionalAxialPos(frac_axial_pos) ==
    [ty |-> "FractionalCubePos",
     q |-> frac_axial_pos.q,
     r |-> frac_axial_pos.r,
     s |-> FSub(FNeg(frac_axial_pos.q), frac_axial_pos.r)]

CubePos(q, r, s) == [ty |-> "CubePos", q |-> q, r |-> r, s |-> s]

FractionalCubePos_round(self) ==
    LET q_round == FRound(self.q)
        r_round == FRound(self.r)
        s_round == FRound(self.s)
        diff == [axis \in {"q", "r", "s"} |->
                    CASE axis = "q" -> FAbs(FSub(q_round, self.q))
                      [] axis = "r" -> FAbs(FSub(r_round, self.r))
                      [] axis = "s" -> FAbs(FSub(s_round, self.s))]
        largest == {axis \in {"q", "r", "s"} :
                       \A other \in {"q", "r", "s"} : ~FGt(diff[other], diff[axis])}
        q == F32ToI32(q_round)
        r == F32ToI32(r_round)
        s == F32ToI32(s_round)
        recomputed(axis) ==
            CASE axis = "q" -> CubePos(WrappingSub(WrappingSub(0, r), s), r, s)
              [] axis = "r" -> CubePos(q, WrappingSub(WrappingSub(0, q), s), s)
              [] axis = "s" -> CubePos(q, r, WrappingSub(WrappingSub(0, q), r))
    IN  {recomputed(axis) : axis \in largest}

\* impl From<CubePos> for AxialPos
AxialPos_from_CubePos(cube_pos) == AxialPos(cube_pos.q, cube_pos.r)

\* FractionalAxialPos::round
FractionalAxialPos_round(self) ==
    LET frac_cube_pos == FractionalCubePos_from_FractionalAxialPos(self)
    IN  {AxialPos_from_CubePos(cube_pos) : cube_pos \in FractionalCubePos_round(frac_cube_pos)}

(***************************************************************************)
(* AxialPos::center_in_world_row / _col, AxialPos::from_world_pos_row /    *)
(* _col.  grid_size is a TilemapGridSize {x, y}, world_pos a Vec2.         *)
(***************************************************************************)
\* center_in_world_row that lays the cell out with the column basis
AxialPos_center_in_world_row_ColBasis(self, grid) ==
    LET unscaled_pos == Mat2_mul_Vec2(COL_BASIS, Vec2(F32FromI32(self.q), F32FromI32(self.r)))
    IN  Vec2(FMul(grid.x, unscaled_pos.x),
             FMul(FMul(ROW_BASIS.y_axis.y, grid.y), unscaled_pos.y))

AxialPos_center_in_world_row(self, grid) ==
    LET unscaled_pos == Mat2_mul_Vec2(ROW_BASIS, Vec2(F32FromI32(self.q), F32FromI32(self.r)))
    IN  Vec2(FMul(grid.x, unscaled_pos.x),
             FMul(FMul(ROW_BASIS.y_axis.y, grid.y), unscaled_pos.y))

AxialPos_center_in_world_col(self, grid) ==
    LET unscaled_pos == Mat2_mul_Vec2(COL_BASIS, Vec2(F32FromI32(self.q), F32FromI32(self.r)))
    IN  Vec2(FMul(FMul(COL_BASIS.x_axis.x, grid.x), unscaled_pos.x),
             FMul(grid.y, unscaled_pos.y))

\* from_world_pos_row that normalizes y by grid_size.y alone
AxialPos_from_world_pos_row_Unscaled(world_pos, grid) ==
    LET normalized_world_pos ==
            Vec2(FDiv(world_pos.x, grid.x), FDiv(world_pos.y, grid.y))
        frac_pos == FractionalAxialPos_from_Vec2(Mat2_mul_Vec2(INV_ROW_BASIS, normalized_world_pos))
    IN  FractionalAxialPos_round(frac_pos)

AxialPos_from_world_pos_row(world_pos, grid) ==
    LET normalized_world_pos ==
            Vec2(FDiv(world_pos.x, grid.x),
                 FDiv(world_pos.y, FMul(ROW_BASIS.y_axis.y, grid.y)))
        frac_pos == FractionalAxialPos_from_Vec2(Mat2_mul_Vec2(INV_ROW_BASIS, normalized_world_pos))
    IN  FractionalAxialPos_round(frac_pos)

AxialPos_from_world_pos_col(world_pos, grid) ==
    LET normalized_world_pos ==
            Vec2(FDiv(world_pos.x, FMul(COL_BASIS.x_axis.x, grid.x)),
                 FDiv(world_pos.y, grid.y))
        frac_pos == FractionalAxialPos_from_Vec2(Mat2_mul_Vec2(INV_COL_BASIS, normalized_world_pos))
    IN  FractionalAxialPos_round(frac_pos)

(***************************************************************************)
(* center_in_world of the four offset types (offset.rs): convert to        *)
(* AxialPos, then take the axial centre in the type's orientation.         *)
(***************************************************************************)
RowOddPos_center_in_world(self, grid) ==
    AxialPos_center_in_world_row(AxialPos_from_RowOddPos(self), grid)

RowEvenPos_center_in_world(self, grid) ==
    AxialPos_center_in_world_row(AxialPos_from_RowEvenPos(self), grid)

ColOddPos_center_in_world(self, grid) ==
    AxialPos_center_in_world_col(AxialPos_from_ColOddPos(self), grid)

ColEvenPos_center_in_world(self, grid) ==
    AxialPos_center_in_world_col(AxialPos_from_ColEvenPos(self), grid)

(***************************************************************************)
(* SpecWorld: a cell and a grid size are drawn; the centre of the cell is  *)
(* taken in one orientation and mapped back to a cell in the same one.     *)
(* The cells are the small ones, the ones at 2^16 and the ones just past   *)
(* 2^24, the largest magnitude below which f32 holds every integer.        *)
(***************************************************************************)
WorldCoords ==
    (-MaxCell..MaxCell)
        \cup {-Pow2(16), Pow2(16) - 1, Pow2(16), Pow2(24) + 1, -(Pow2(24) + 1)}

\* 2^-64 and 2^64
MinGridLength == [m |-> Pow2(23), e |-> -87]
MaxGridLength == [m |-> Pow2(23), e |-> 41]

PlainGridLengths ==
    {F32FromI32(n) : n \in 1..MaxGrid}
        \cup {FDiv(F32_One, F32FromI32(n)) : n \in 1..MaxGrid}

GridLengths == PlainGridLengths \cup {MinGridLength, MaxGridLength}

GridSizes == {Vec2(x, y) : x \in GridLengths, y \in GridLengths}

InitWorld ==
    /\ overflow_checks = FALSE
    /\ a \in {AxialPos(q, r) : q \in WorldCoords, r \in WorldCoords}
    /\ grid_size \in GridSizes
    /\ b = Idle /\ c = Idle /\ k = 0 /\ map_size = Idle
    /\ pc = "call"
    /\ res = <<>>

CenterInWorld(orientation, centre) ==
    /\ pc = "call"
    /\ res' = <<centre>>
    /\ pc' = "center_in_world_" \o orientation
    /\ UNCHANGED <<overflow_checks, a, b, c, k, grid_size, map_size>>

FromWorldPos(orientation, cells) ==
    /\ pc = "center_in_world_" \o orientation
    /\ \E cell \in cells : res' = Append(res, cell)
    /\ pc' = "from_world_pos_" \o orientation
    /\ UNCHANGED <<overflow_checks, a, b, c, k, grid_size, map_size>>

CenterInWorldRow == CenterInWorld("row", AxialPos_center_in_world_row(a, grid_size))
CenterInWorldCol == CenterInWorld("col", AxialPos_center_in_world_col(a, grid_size))
FromWorldPosRow == FromWorldPos("row", AxialPos_from_world_pos_row(res[1], grid_size))
FromWorldPosCol == FromWorldPos("col", AxialPos_from_world_pos_col(res[1], grid_size))

NextWorld ==
    \/ CenterInWorldRow \/ CenterInWorldCol
    \/ FromWorldPosRow \/ FromWorldPosCol

SpecWorld == InitWorld /\ [][NextWorld]_vars

MappedBack == pc \in {"from_world_pos_row", "from_world_pos_col"}

\* the cells and grid sizes for which the f32 arithmetic is exact enough
InExactRange(pos) == Abs(pos.q) <= Pow2(16) /\ Abs(pos.r) <= Pow2(16)

GridInRange(grid) ==
    /\ ~FGt(MinGridLength, grid.x) /\ ~FGt(grid.x, MaxGridLength)
    /\ ~FGt(MinGridLength, grid.y) /\ ~FGt(grid.y, MaxGridLength)

RowCentreOfOneZero ==
    /\ pc = "center_in_world_row"
    /\ a = AxialPos(1, 0)
    /\ grid_size = Vec2(F32FromI32(2), F32FromI32(2))

\* C5 as stated: the row centre of AxialPos {q: 1, r: 0} on the grid size
\* (2.0, 2.0) is (2.0, 1.0).
C5_CentreOneZeroStated == RowCentreOfOneZero => res[1] = Vec2(F32FromI32(2), F32_One)

\* C5: the row centre of AxialPos {q: 1, r: 0} on the grid size (2.0, 2.0)
\* is (2.0, 0.0).
C5_CentreOneZero == RowCentreOfOneZero => res[1] = Vec2(F32FromI32(2), FZero)

C5_Witness == RowCentreOfOneZero /\ res[1].x = F32FromI32(2)

(***************************************************************************)
(* SpecAlign: two cells of one offset type on one line of the rectangular  *)
(* array (a row type's share q, a column type's share r) and a grid size   *)
(* are drawn; the centre of each is taken.                                 *)
(***************************************************************************)
Cells == -MaxCell..MaxCell

RowTypes == {"RowOddPos", "RowEvenPos"}
ColTypes == {"ColOddPos", "ColEvenPos"}

InitAlign ==
    /\ overflow_checks = TRUE
    /\ a \in {[ty |-> t, q |-> q, r |-> r] : t \in OffsetTypes, q \in Cells, r \in Cells}
    /\ b \in {[ty |-> t, q |-> q, r |-> r] : t \in OffsetTypes, q \in Cells, r \in Cells}
    /\ b.ty = a.ty
    /\ a.ty \in RowTypes => b.q = a.q
    /\ a.ty \in ColTypes => b.r = a.r
    /\ grid_size \in {Vec2(x, y) : x \in PlainGridLengths, y \in PlainGridLengths}
    /\ c = Idle /\ k = 0 /\ map_size = Idle
    /\ pc = "first"
    /\ res = <<>>

Pending == IF pc = "first" THEN a ELSE b

OffsetCenterInWorld(ty, overflows, centre) ==
    /\ pc \in {"first", "second"}
    /\ Pending.ty = ty
    /\ res' = Append(res, Call(overflows, centre))
    /\ pc' = IF pc = "first" THEN "second" ELSE "done"
    /\ UNCHANGED <<overflow_checks, a, b, c, k, grid_size, map_size>>

RowOddCenterInWorld ==
    OffsetCenterInWorld("RowOddPos", AxialPos_from_RowOddPos_overflows(Pending),
                        RowOddPos_center_in_world(Pending, grid_size))
RowEvenCenterInWorld ==
    OffsetCenterInWorld("RowEvenPos", AxialPos_from_RowEvenPos_overflows(Pending),
                        RowEvenPos_center_in_world(Pending, grid_size))
ColOddCenterInWorld ==
    OffsetCenterInWorld("ColOddPos", AxialPos_from_ColOddPos_overflows(Pending),
                        ColOddPos_center_in_world(Pending, grid_size))
ColEvenCenterInWorld ==
    OffsetCenterInWorld("ColEvenPos", AxialPos_from_ColEvenPos_overflows(Pending),
                        ColEvenPos_center_in_world(Pending, grid_size))

NextAlign ==
    \/ RowOddCenterInWorld \/ RowEvenCenterInWorld
    \/ ColOddCenterInWorld \/ ColEvenCenterInWorld

SpecAlign == InitAlign /\ [][NextAlign]_vars

\* C10: two cells of a row offset type with the same q and rows two apart
\* have centres with the same world x; two cells of a column offset type
\* with the same r and columns two apart have centres with the same world
\* y; negative coordinates included.
C10_RectangularlyAligned ==
    pc = "done" =>
        /\ (a.ty \in RowTypes /\ b.r = a.r + 2) => res[1].x = res[2].x
        /\ (a.ty \in ColTypes /\ b.q = a.q + 2) => res[1].y = res[2].y

=============================================================================
